---- MODULE Spec2Model ----
(***************************************************************************)
(* Authentication / session-lifecycle core of the Django project:          *)
(* apps/authentication (models.py, backends.py, views.py, serializers.py). *)
(*                                                                         *)
(* The persistent store is the shared state.  Every HTTP request runs in   *)
(* a worker; a handler that loads a User row and saves it back later is    *)
(* split at its database statements, so that other requests can run        *)
(* between the load and the save.  The in-memory model instance of a       *)
(* request is req[p].user.                                                 *)
(***************************************************************************)
EXTENDS Integers, Sequences, FiniteSets, TLC

\* ---------------------------------------------------------------- bounds
MaxUsers   == 3      \* rows in the User table
MaxVersion == 2      \* cap on token_version
MaxJti     == 3      \* refresh tokens ever minted
MaxUuid    == 3      \* uuid4() values ever drawn
MaxTicks   == 2      \* clock advances

\* ------------------------------------------------------ program constants
ACCESS_TOKEN_LIFETIME  == 3600
REFRESH_TOKEN_LIFETIME == 86400
RESET_TOKEN_MAX_AGE    == 86400

\* ------------------------------------------------------------ input sets
Procs     == {1, 2}
Handles   == {"al", "bo"}
Emails    == {"al@x.com", "bo@x.com"}
Passwords == {"pw1", "pw2"}
MailOutcomes == {"sent", "failed", "raised"}
TickSteps == {1, 86400}

\* null of a UUIDField / DateTimeField, absent claim, unusable password
NoUuid     == 0
MalformedUuid == -1
NoTime     == -1
NoClaim    == -1
Unusable   == "!"

VARIABLES
    users,        \* User table: sequence of rows, id = index
    outstanding,  \* OutstandingToken table
    blacklisted,  \* BlacklistedToken table (jti of the outstanding row)
    issued,       \* tokens handed to clients in responses
    nextJti,      \* jti values drawn so far
    nextUuid,     \* uuid4() values drawn so far
    now,          \* timezone.now()
    ticks,        \* clock advances so far
    req,          \* per worker: the request in progress
    last,         \* outcome of the step just taken
    loggedOut,    \* history: tokens an account held when a Logout of it that succeeded began
    resetBefore,  \* history: tokens an account held when a password reset of it that succeeded began
    bumps,        \* history: per account, completed operations that increment token_version
    confirmed     \* history: reset tokens of the ConfirmPasswordReset requests that succeeded, in order

vars == <<users, outstanding, blacklisted, issued, nextJti, nextUuid, now, ticks,
          req, last, loggedOut, resetBefore, bumps, confirmed>>

Ids == 1..Len(users)

Idle   == [pc |-> "idle"]
NoResp == [op |-> "none"]
\* `last` records the outcome of every step unless recording is switched
\* off in the initial state
Off    == [op |-> "off"]
Rec(r) == IF last = Off THEN Off ELSE r

\* a new request is taken by the lowest idle worker (workers are interchangeable)
Free(p) == req[p] = Idle /\ \A q \in Procs : q < p => req[q] # Idle

\* ---------------------------------------------------------------- tokens
\* A token is its payload.  tv = NoClaim when the token carries no
\* token_version claim.  Access tokens never get an OutstandingToken row,
\* so their jti is not tracked (0).
Token(kind, uid, tv, jti, exp) ==
    [kind |-> kind, uid |-> uid, tv |-> tv, jti |-> jti, exp |-> exp]

\* what a client can put where a token is expected besides an issued token:
\* a string that does not decode, or nothing at all
Malformed == Token("garbage", 0, NoClaim, 0, 0)
Absent    == Token("absent", 0, NoClaim, 0, 0)

\* payload.get("token_version", 0)
PayloadVersion(t) == IF t.tv = NoClaim THEN 0 ELSE t.tv

\* Token.__init__(token) -> Token.verify(): type claim and expiry
\* (signature: only issued tokens and the malformed string are presented)
BaseVerify(t, kind) ==
    /\ t.kind = kind
    /\ t.exp > now

\* BlacklistMixin.check_blacklist: filter(token__jti=jti).exists()
CheckBlacklist(t) == t.jti \in blacklisted

\* RefreshToken(raw): BlacklistMixin.verify
RefreshTokenVerify(t) == BaseVerify(t, "refresh") /\ ~CheckBlacklist(t)

\* OutstandingToken.objects.get(token=raw): rows whose stored string is raw
OutstandingGet(t) == {o \in outstanding : o.token = t}

\* CustomAccessToken.verify: super().verify(), then the version and
\* blacklist checks against the stored row
CustomAccessTokenVerify(t) ==
    /\ BaseVerify(t, "access")
    /\ t.uid \in Ids
    /\ ~(PayloadVersion(t) < users[t.uid].token_version)
    /\ \A o \in OutstandingGet(t) : o.jti \notin blacklisted

\* CustomJWTAuthentication.authenticate: get_validated_token, then
\* JWTAuthentication.get_user (row exists and is_active)
Authenticate(t) == CustomAccessTokenVerify(t) /\ users[t.uid].is_active

\* AccessToken(token) of the stock library class, as used by TokenVerifyView
AccessTokenVerify(t) == BaseVerify(t, "access")

\* RefreshAccepts without the comparison of versions
RefreshAccepts_NoVersionCheck(t) ==
    /\ RefreshTokenVerify(t)
    /\ t.uid \in Ids

\* TokenRefreshView.post: the condition under which the try block
\* reaches the token generation
RefreshAccepts(t) ==
    /\ RefreshTokenVerify(t)
    /\ t.uid \in Ids
    /\ ~(PayloadVersion(t) < users[t.uid].token_version)

\* ------------------------------------------------------------ user rows
\* str.lower() on the identifiers of the model (iexact lookups)
Lower(s) ==
    CASE s = "AL"       -> "al"
      [] s = "AL@x.com" -> "al@x.com"
      [] OTHER          -> s

\* User.check_password; an unusable password never matches
CheckPassword(u, pw) == u.password # Unusable /\ u.password = pw

NewUser(username, email, password, verified, evt) ==
    [username |-> username, email |-> email, password |-> password,
     token_version |-> 0, email_verified |-> verified, is_active |-> TRUE,
     email_verification_token |-> evt,
     password_reset_token |-> NoUuid, password_reset_token_created |-> NoTime,
     last_login |-> NoTime]

\* RefreshToken.for_user(user) followed by the custom claims, and a
\* CustomAccessToken() with the same claims (LoginView / TokenRefreshView).
\* for_user writes the OutstandingToken row before the claims are added.
ClaimedRefresh(uid, u) ==
    Token("refresh", uid, u.token_version, nextJti + 1, now + REFRESH_TOKEN_LIFETIME)
\* ClaimedAccess with the claim left at the default of a new account
ClaimedAccess_DefaultVersion(uid, u) ==
    Token("access", uid, 0, 0, now + ACCESS_TOKEN_LIFETIME)
ClaimedAccess(uid, u) ==
    Token("access", uid, u.token_version, 0, now + ACCESS_TOKEN_LIFETIME)
\* RefreshToken.for_user(user) / CustomAccessToken.for_user(user) with no
\* further claims (GoogleLoginView)
PlainRefresh(uid) ==
    Token("refresh", uid, NoClaim, nextJti + 1, now + REFRESH_TOKEN_LIFETIME)
PlainAccess(uid) ==
    Token("access", uid, NoClaim, 0, now + ACCESS_TOKEN_LIFETIME)
OutstandingRow(uid) == [jti |-> nextJti + 1, token |-> PlainRefresh(uid)]

\* ------------------------------------------------------------- Login
\* EmailOrUsernameModelBackend.authenticate: User.objects.get(Q | Q)
LoginMatches(ident) ==
    {i \in Ids : \/ Lower(users[i].username) = Lower(ident)
                 \/ Lower(users[i].email) = Lower(ident)}

\* LoginVerdict without the email_verified guard
LoginVerdict_NoVerifiedCheck(ident, pw) ==
    LET m == LoginMatches(ident) IN
    IF Cardinality(m) > 1 THEN "multiple"
    ELSE IF m = {} THEN "invalid"
    ELSE LET u == users[CHOOSE i \in m : TRUE] IN
         IF ~CheckPassword(u, pw) THEN "invalid"
         ELSE IF ~u.is_active THEN "disabled"
         ELSE "ok"

\* which guard of LoginView.post rejects the request ("ok" if none)
LoginVerdict(ident, pw) ==
    LET m == LoginMatches(ident) IN
    IF Cardinality(m) > 1 THEN "multiple"
    ELSE IF m = {} THEN "invalid"
    ELSE LET u == users[CHOOSE i \in m : TRUE] IN
         IF ~CheckPassword(u, pw) THEN "invalid"
         ELSE IF ~u.email_verified THEN "unverified"
         ELSE IF ~u.is_active THEN "disabled"
         ELSE "ok"

Login(ident, pw) ==
    LET m == LoginMatches(ident)
        v == LoginVerdict(ident, pw)
        uid == IF m = {} THEN 0 ELSE CHOOSE i \in m : TRUE
    IN
    IF v = "ok" THEN
        /\ nextJti < MaxJti
        /\ LET r == ClaimedRefresh(uid, users[uid])
               a == ClaimedAccess(uid, users[uid])
           IN /\ issued' = issued \cup {r, a}
              /\ outstanding' = outstanding \cup {OutstandingRow(uid)}
              /\ nextJti' = nextJti + 1
              /\ users' = [users EXCEPT ![uid].last_login = now]
              /\ last' = Rec([op |-> "login", status |-> 200, uid |-> uid,
                          ident |-> ident, pw |-> pw, access |-> a, refresh |-> r])
        /\ UNCHANGED <<blacklisted, nextUuid, now, ticks, req, loggedOut, resetBefore, bumps, confirmed>>
    ELSE
        /\ last' = Rec([op |-> "login", status |-> IF v = "multiple" THEN 500 ELSE 401,
                    uid |-> uid, ident |-> ident, pw |-> pw,
                    access |-> Absent, refresh |-> Absent])
        /\ UNCHANGED <<users, outstanding, blacklisted, issued, nextJti, nextUuid, now,
                       ticks, req, loggedOut, resetBefore, bumps, confirmed>>

\* ------------------------------------------------------------- Refresh
\* TokenRefresh that copies the token_version claim of the presented token
TokenRefresh_CopiesPresented(t) ==
    IF RefreshAccepts(t) THEN
        /\ nextJti < MaxJti
        /\ LET r == Token("refresh", t.uid, t.tv, nextJti + 1, now + REFRESH_TOKEN_LIFETIME)
               a == Token("access", t.uid, t.tv, 0, now + ACCESS_TOKEN_LIFETIME)
           IN /\ issued' = issued \cup {r, a}
              /\ outstanding' = outstanding \cup {OutstandingRow(t.uid)}
              /\ nextJti' = nextJti + 1
              /\ last' = Rec([op |-> "refresh", status |-> 200, tok |-> t,
                          access |-> a, refresh |-> r])
        /\ UNCHANGED <<users, blacklisted, nextUuid, now, ticks, req, loggedOut,
                       resetBefore, bumps, confirmed>>
    ELSE
        /\ last' = Rec([op |-> "refresh", status |-> 401, tok |-> t,
                    access |-> Absent, refresh |-> Absent])
        /\ UNCHANGED <<users, outstanding, blacklisted, issued, nextJti, nextUuid, now,
                       ticks, req, loggedOut, resetBefore, bumps, confirmed>>

\* TokenRefresh that blacklists the presented token (rotation)
TokenRefresh_Rotates(t) ==
    IF RefreshAccepts(t) THEN
        /\ nextJti < MaxJti
        /\ LET r == ClaimedRefresh(t.uid, users[t.uid])
               a == ClaimedAccess(t.uid, users[t.uid])
           IN /\ issued' = issued \cup {r, a}
              /\ outstanding' = outstanding \cup {OutstandingRow(t.uid)}
              /\ nextJti' = nextJti + 1
              /\ last' = Rec([op |-> "refresh", status |-> 200, tok |-> t,
                          access |-> a, refresh |-> r])
        /\ blacklisted' = blacklisted \cup {t.jti}
        /\ UNCHANGED <<users, nextUuid, now, ticks, req, loggedOut,
                       resetBefore, bumps, confirmed>>
    ELSE
        /\ last' = Rec([op |-> "refresh", status |-> 401, tok |-> t,
                    access |-> Absent, refresh |-> Absent])
        /\ UNCHANGED <<users, outstanding, blacklisted, issued, nextJti, nextUuid, now,
                       ticks, req, loggedOut, resetBefore, bumps, confirmed>>

TokenRefresh(t) ==
    IF RefreshAccepts(t) THEN
        /\ nextJti < MaxJti
        /\ LET r == ClaimedRefresh(t.uid, users[t.uid])
               a == ClaimedAccess(t.uid, users[t.uid])
           IN /\ issued' = issued \cup {r, a}
              /\ outstanding' = outstanding \cup {OutstandingRow(t.uid)}
              /\ nextJti' = nextJti + 1
              /\ last' = Rec([op |-> "refresh", status |-> 200, tok |-> t,
                          access |-> a, refresh |-> r])
        /\ UNCHANGED <<users, blacklisted, nextUuid, now, ticks, req, loggedOut,
                       resetBefore, bumps, confirmed>>
    ELSE
        /\ last' = Rec([op |-> "refresh", status |-> 401, tok |-> t,
                    access |-> Absent, refresh |-> Absent])
        /\ UNCHANGED <<users, outstanding, blacklisted, issued, nextJti, nextUuid, now,
                       ticks, req, loggedOut, resetBefore, bumps, confirmed>>

\* --------------------------------------------------------- token/verify
TokenVerify(t) ==
    /\ last' = Rec([op |-> "verify", tok |-> t,
                status |-> IF AccessTokenVerify(t) THEN 200 ELSE 401])
    /\ UNCHANGED <<users, outstanding, blacklisted, issued, nextJti, nextUuid, now,
                   ticks, req, loggedOut, resetBefore, bumps, confirmed>>

\* ------------------------------------------------------------- Logout
\* DRF authentication + permission check of an IsAuthenticated view:
\* request.user is the row as loaded now
LogoutAuth(p, a, r) ==
    /\ Free(p)
    /\ IF Authenticate(a) THEN
          /\ users[a.uid].token_version < MaxVersion
          /\ bumps[a.uid] < MaxVersion
          /\ req' = [req EXCEPT ![p] = [pc |-> "logout", uid |-> a.uid,
                                        user |-> users[a.uid], access |-> a,
                                        refresh |-> r,
                                        pre |-> {t \in issued : t.uid = a.uid}]]
          /\ last' = Rec(NoResp)
       ELSE
          /\ req' = req
          /\ last' = Rec([op |-> "logout", status |-> 401, uid |-> 0, old |-> 0,
                      access |-> a, refresh |-> r])
    /\ UNCHANGED <<users, outstanding, blacklisted, issued, nextJti, nextUuid, now,
                   ticks, loggedOut, resetBefore, bumps, confirmed>>

\* which branch of LogoutView.post answers ("ok": the version is incremented)
LogoutVerdict(r) ==
    IF r = Absent THEN "required"
    ELSE IF ~RefreshTokenVerify(r) THEN "error"
    ELSE "ok"

\* User.increment_token_version on the in-memory instance u of row uid
IncrementTokenVersion(uid, u) ==
    [users EXCEPT ![uid].token_version = u.token_version + 1]

\* LogoutView.post
LogoutDo(p) ==
    /\ req[p].pc = "logout"
    /\ LET q == req[p]
           v == LogoutVerdict(q.refresh)
       IN
       /\ req' = [req EXCEPT ![p] = Idle]
       /\ IF v = "ok" THEN
             /\ blacklisted' = blacklisted
                    \cup {o.jti : o \in OutstandingGet(q.refresh)}
                    \cup {o.jti : o \in OutstandingGet(q.access)}
             /\ users' = IncrementTokenVersion(q.uid, q.user)
             /\ loggedOut' = loggedOut \cup q.pre
             /\ bumps' = [bumps EXCEPT ![q.uid] = @ + 1]
             /\ last' = Rec([op |-> "logout", status |-> 200, uid |-> q.uid,
                         old |-> users[q.uid].token_version,
                         access |-> q.access, refresh |-> q.refresh])
          ELSE
             /\ last' = Rec([op |-> "logout", status |-> 400, uid |-> q.uid,
                         old |-> users[q.uid].token_version,
                         access |-> q.access, refresh |-> q.refresh])
             /\ UNCHANGED <<users, blacklisted, loggedOut, bumps>>
    /\ UNCHANGED <<outstanding, issued, nextJti, nextUuid, now, ticks, resetBefore, confirmed>>

\* ------------------------------------------------------ PasswordChange
PasswordChangeAuth(p, a, old, new) ==
    /\ Free(p)
    /\ IF Authenticate(a) THEN
          /\ req' = [req EXCEPT ![p] = [pc |-> "pwchange", uid |-> a.uid,
                                        user |-> users[a.uid], old |-> old,
                                        new |-> new]]
          /\ last' = Rec(NoResp)
       ELSE
          /\ req' = req
          /\ last' = Rec([op |-> "pwchange", status |-> 401, uid |-> 0])
    /\ UNCHANGED <<users, outstanding, blacklisted, issued, nextJti, nextUuid, now,
                   ticks, loggedOut, resetBefore, bumps, confirmed>>

\* Model.save() without update_fields: every column is written from the instance
SaveAll(uid, u) == [users EXCEPT ![uid] = u]

\* PasswordChangeDo that also increments token_version
PasswordChangeDo_Bumps(p) ==
    /\ req[p].pc = "pwchange"
    /\ LET q == req[p] IN
       /\ req' = [req EXCEPT ![p] = Idle]
       /\ IF CheckPassword(q.user, q.old) THEN
             /\ users' = SaveAll(q.uid, [q.user EXCEPT !.password = q.new,
                                                       !.token_version = @ + 1])
             /\ last' = Rec([op |-> "pwchange", status |-> 200, uid |-> q.uid])
          ELSE
             /\ users' = users
             /\ last' = Rec([op |-> "pwchange", status |-> 400, uid |-> q.uid])
    /\ UNCHANGED <<outstanding, blacklisted, issued, nextJti, nextUuid, now, ticks,
                   loggedOut, resetBefore, bumps, confirmed>>

\* PasswordChangeView.post
PasswordChangeDo(p) ==
    /\ req[p].pc = "pwchange"
    /\ LET q == req[p] IN
       /\ req' = [req EXCEPT ![p] = Idle]
       /\ IF CheckPassword(q.user, q.old) THEN
             /\ users' = SaveAll(q.uid, [q.user EXCEPT !.password = q.new])
             /\ last' = Rec([op |-> "pwchange", status |-> 200, uid |-> q.uid])
          ELSE
             /\ users' = users
             /\ last' = Rec([op |-> "pwchange", status |-> 400, uid |-> q.uid])
    /\ UNCHANGED <<outstanding, blacklisted, issued, nextJti, nextUuid, now, ticks,
                   loggedOut, resetBefore, bumps, confirmed>>

\* ------------------------------------------------------- password reset
\* User.objects.get(email=email): exact match
ByEmail(email) == {i \in Ids : users[i].email = email}

\* GeneratePasswordResetToken that keeps a token that is still stored
GeneratePasswordResetToken_KeepsExisting(uid) ==
    IF users[uid].password_reset_token # NoUuid THEN users
    ELSE [users EXCEPT ![uid].password_reset_token = nextUuid + 1,
                       ![uid].password_reset_token_created = now]

\* User.generate_password_reset_token
GeneratePasswordResetToken(uid) ==
    [users EXCEPT ![uid].password_reset_token = nextUuid + 1,
                  ![uid].password_reset_token_created = now]

\* the responses of PasswordResetRequestView.post: found tells whether the
\* lookup returned a row, mail what EmailService.send_password_reset_email did
PasswordResetRequestResponse(found, mail) ==
    IF found /\ mail # "sent"
    THEN [status |-> 500,
          body |-> "Failed to send password reset email. Please try again later."]
    ELSE [status |-> 200, body |-> "Password reset email has been sent."]

\* PasswordResetRequest that generates the token only once the mail is out
PasswordResetRequest_RollsBack(email, mail) ==
    LET m == ByEmail(email) IN
    /\ IF Cardinality(m) = 1 THEN
          /\ nextUuid < MaxUuid
          /\ users' = IF mail = "sent"
                       THEN GeneratePasswordResetToken(CHOOSE i \in m : TRUE)
                       ELSE users
          /\ nextUuid' = nextUuid + 1
          /\ last' = Rec([op |-> "reset_request", email |-> email, mail |-> mail,
                      found |-> TRUE,
                      status |-> PasswordResetRequestResponse(TRUE, mail).status,
                      body |-> PasswordResetRequestResponse(TRUE, mail).body])
       ELSE IF m = {} THEN
          /\ last' = Rec([op |-> "reset_request", email |-> email, mail |-> "none",
                      found |-> FALSE,
                      status |-> PasswordResetRequestResponse(FALSE, "none").status,
                      body |-> PasswordResetRequestResponse(FALSE, "none").body])
          /\ UNCHANGED <<users, nextUuid>>
       ELSE
          /\ last' = Rec([op |-> "reset_request", email |-> email, mail |-> "none",
                      found |-> TRUE, status |-> 500, body |-> "Server Error (500)"])
          /\ UNCHANGED <<users, nextUuid>>
    /\ UNCHANGED <<outstanding, blacklisted, issued, nextJti, now, ticks, req,
                   loggedOut, resetBefore, bumps, confirmed>>

\* PasswordResetRequestView.post
PasswordResetRequest(email, mail) ==
    LET m == ByEmail(email) IN
    /\ IF Cardinality(m) = 1 THEN
          /\ nextUuid < MaxUuid
          /\ users' = GeneratePasswordResetToken(CHOOSE i \in m : TRUE)
          /\ nextUuid' = nextUuid + 1
          /\ last' = Rec([op |-> "reset_request", email |-> email, mail |-> mail,
                      found |-> TRUE,
                      status |-> PasswordResetRequestResponse(TRUE, mail).status,
                      body |-> PasswordResetRequestResponse(TRUE, mail).body])
       ELSE IF m = {} THEN
          /\ last' = Rec([op |-> "reset_request", email |-> email, mail |-> "none",
                      found |-> FALSE,
                      status |-> PasswordResetRequestResponse(FALSE, "none").status,
                      body |-> PasswordResetRequestResponse(FALSE, "none").body])
          /\ UNCHANGED <<users, nextUuid>>
       ELSE
          /\ last' = Rec([op |-> "reset_request", email |-> email, mail |-> "none",
                      found |-> TRUE, status |-> 500, body |-> "Server Error (500)"])
          /\ UNCHANGED <<users, nextUuid>>
    /\ UNCHANGED <<outstanding, blacklisted, issued, nextJti, now, ticks, req,
                   loggedOut, resetBefore, bumps, confirmed>>

\* IsPasswordResetTokenValid with the age limit itself already expired
IsPasswordResetTokenValid_ExpiresAtLimit(u, token) ==
    /\ u.password_reset_token = token
    /\ ~(now - u.password_reset_token_created >= RESET_TOKEN_MAX_AGE)

\* User.is_password_reset_token_valid on the instance u
IsPasswordResetTokenValid(u, token) ==
    /\ u.password_reset_token = token
    /\ ~(now - u.password_reset_token_created > RESET_TOKEN_MAX_AGE)

\* User.objects.get(password_reset_token=token_uuid)
ByResetToken(token) == {i \in Ids : users[i].password_reset_token = token}

\* the 400 bodies of PasswordResetConfirmView.post
InvalidTokenFormat == "Invalid token format."
InvalidOrExpiredToken == "Invalid or expired token. Please request a new password reset."

\* PasswordResetConfirmLoad without the call of is_password_reset_token_valid
PasswordResetConfirmLoad_SkipsValidity(p, token, new) ==
    /\ Free(p)
    /\ LET m == ByResetToken(token)
           uid == IF m = {} THEN 0 ELSE CHOOSE i \in m : TRUE
       IN
       IF token # MalformedUuid /\ m # {}
       THEN
          /\ users[uid].token_version < MaxVersion
          /\ bumps[uid] < MaxVersion
          /\ req' = [req EXCEPT ![p] = [pc |-> "reset_clear", uid |-> uid, token |-> token,
                                        user |-> [users[uid] EXCEPT !.password = new],
                                        old |-> users[uid].token_version,
                                        new |-> new,
                                        pre |-> {t \in issued : t.uid = uid}]]
          /\ last' = Rec(NoResp)
       ELSE
          /\ req' = req
          /\ last' = Rec([op |-> "reset_confirm", status |-> 400, uid |-> uid, token |-> token,
                      mail |-> "none",
                      body |-> IF token = MalformedUuid THEN InvalidTokenFormat
                               ELSE InvalidOrExpiredToken])
    /\ UNCHANGED <<users, outstanding, blacklisted, issued, nextJti, nextUuid, now,
                   ticks, loggedOut, resetBefore, bumps, confirmed>>

\* PasswordResetConfirmView.post up to and including set_password
PasswordResetConfirmLoad(p, token, new) ==
    /\ Free(p)
    /\ LET m == ByResetToken(token)
           uid == IF m = {} THEN 0 ELSE CHOOSE i \in m : TRUE
       IN
       IF token # MalformedUuid /\ m # {} /\ IsPasswordResetTokenValid(users[uid], token)
       THEN
          /\ users[uid].token_version < MaxVersion
          /\ bumps[uid] < MaxVersion
          /\ req' = [req EXCEPT ![p] = [pc |-> "reset_clear", uid |-> uid, token |-> token,
                                        user |-> [users[uid] EXCEPT !.password = new],
                                        old |-> users[uid].token_version,
                                        new |-> new,
                                        pre |-> {t \in issued : t.uid = uid}]]
          /\ last' = Rec(NoResp)
       ELSE
          /\ req' = req
          /\ last' = Rec([op |-> "reset_confirm", status |-> 400, uid |-> uid, token |-> token,
                      mail |-> "none",
                      body |-> IF token = MalformedUuid THEN InvalidTokenFormat
                               ELSE InvalidOrExpiredToken])
    /\ UNCHANGED <<users, outstanding, blacklisted, issued, nextJti, nextUuid, now,
                   ticks, loggedOut, resetBefore, bumps, confirmed>>

\* PasswordResetConfirmClear that leaves the token fields as they are
PasswordResetConfirmClear_KeepsToken(p) ==
    /\ req[p].pc = "reset_clear"
    /\ users' = users
    /\ req' = [req EXCEPT ![p] = [req[p] EXCEPT !.pc = "reset_incr"]]
    /\ last' = Rec(NoResp)
    /\ UNCHANGED <<outstanding, blacklisted, issued, nextJti, nextUuid, now, ticks,
                   loggedOut, resetBefore, bumps, confirmed>>

\* User.clear_password_reset_token
PasswordResetConfirmClear(p) ==
    /\ req[p].pc = "reset_clear"
    /\ LET q == req[p]
           u == [q.user EXCEPT !.password_reset_token = NoUuid,
                               !.password_reset_token_created = NoTime]
       IN
       /\ users' = [users EXCEPT ![q.uid].password_reset_token = NoUuid,
                                 ![q.uid].password_reset_token_created = NoTime]
       /\ req' = [req EXCEPT ![p] = [q EXCEPT !.pc = "reset_incr", !.user = u]]
    /\ last' = Rec(NoResp)
    /\ UNCHANGED <<outstanding, blacklisted, issued, nextJti, nextUuid, now, ticks,
                   loggedOut, resetBefore, bumps, confirmed>>

\* user.increment_token_version()
PasswordResetConfirmIncr(p) ==
    /\ req[p].pc = "reset_incr"
    /\ LET q == req[p] IN
       /\ users' = IncrementTokenVersion(q.uid, q.user)
       /\ req' = [req EXCEPT ![p] = [q EXCEPT !.pc = "reset_save",
                      !.user = [q.user EXCEPT !.token_version = @ + 1]]]
    /\ last' = Rec(NoResp)
    /\ UNCHANGED <<outstanding, blacklisted, issued, nextJti, nextUuid, now, ticks,
                   loggedOut, resetBefore, bumps, confirmed>>

\* user.save(), the notification and the response.  EmailService has no
\* send_password_changed_notification: the call raises AttributeError,
\* which the handler catches.
PasswordResetConfirmSave(p) ==
    /\ req[p].pc = "reset_save"
    /\ LET q == req[p] IN
       /\ users' = SaveAll(q.uid, q.user)
       /\ req' = [req EXCEPT ![p] = Idle]
       /\ resetBefore' = resetBefore \cup q.pre
       /\ bumps' = [bumps EXCEPT ![q.uid] = @ + 1]
       /\ confirmed' = Append(confirmed, q.token)
       /\ last' = Rec([op |-> "reset_confirm", status |-> 200, uid |-> q.uid,
                   token |-> q.token, mail |-> "raised",
                   body |-> "Password has been reset successfully. You can now log in with your new password."])
    /\ UNCHANGED <<outstanding, blacklisted, issued, nextJti, nextUuid, now, ticks,
                   loggedOut>>

\* ---------------------------------------------------- email verification
\* User.objects.get(email_verification_token=token)
ByVerificationToken(token) == {i \in Ids : users[i].email_verification_token = token}

\* VerifyEmailLoad without the email_verified test
VerifyEmailLoad_NoVerifiedTest(p, token) ==
    /\ Free(p)
    /\ LET m == ByVerificationToken(token)
           uid == IF m = {} THEN 0 ELSE CHOOSE i \in m : TRUE
       IN
       IF m = {} THEN
          /\ req' = req
          /\ last' = Rec([op |-> "verify_email", status |-> 400, uid |-> 0,
                      token |-> token, welcome |-> FALSE, mail |-> "none"])
       ELSE
          /\ req' = [req EXCEPT ![p] = [pc |-> "verify", uid |-> uid, token |-> token,
                                        user |-> users[uid]]]
          /\ last' = Rec(NoResp)
    /\ UNCHANGED <<users, outstanding, blacklisted, issued, nextJti, nextUuid, now,
                   ticks, loggedOut, resetBefore, bumps, confirmed>>

\* VerifyEmailView.get: the lookup and the email_verified test
VerifyEmailLoad(p, token) ==
    /\ Free(p)
    /\ LET m == ByVerificationToken(token)
           uid == IF m = {} THEN 0 ELSE CHOOSE i \in m : TRUE
       IN
       IF m = {} THEN
          /\ req' = req
          /\ last' = Rec([op |-> "verify_email", status |-> 400, uid |-> 0,
                      token |-> token, welcome |-> FALSE, mail |-> "none"])
       ELSE IF users[uid].email_verified THEN
          /\ req' = req
          /\ last' = Rec([op |-> "verify_email", status |-> 200, uid |-> uid,
                      token |-> token, welcome |-> FALSE, mail |-> "none"])
       ELSE
          /\ req' = [req EXCEPT ![p] = [pc |-> "verify", uid |-> uid, token |-> token,
                                        user |-> users[uid]]]
          /\ last' = Rec(NoResp)
    /\ UNCHANGED <<users, outstanding, blacklisted, issued, nextJti, nextUuid, now,
                   ticks, loggedOut, resetBefore, bumps, confirmed>>

\* VerifyEmailView.get: user.email_verified = True; user.save(); the welcome
\* mail is attempted (its outcome does not change the response)
VerifyEmailSave(p, mail) ==
    /\ req[p].pc = "verify"
    /\ LET q == req[p] IN
       /\ users' = SaveAll(q.uid, [q.user EXCEPT !.email_verified = TRUE])
       /\ req' = [req EXCEPT ![p] = Idle]
       /\ last' = Rec([op |-> "verify_email", status |-> 200, uid |-> q.uid,
                   token |-> q.token, welcome |-> TRUE, mail |-> mail])
    /\ UNCHANGED <<outstanding, blacklisted, issued, nextJti, nextUuid, now, ticks,
                   loggedOut, resetBefore, bumps, confirmed>>

\* the responses of ResendVerificationEmailView.post; outcome is "notfound",
\* "verified", or what EmailService.send_verification_email did
ResendVerificationResponse(outcome) ==
    CASE outcome = "notfound" ->
            [status |-> 200,
             body |-> "If an account exists with this email, a verification link will be sent."]
      [] outcome = "verified" ->
            [status |-> 400, body |-> "Email is already verified."]
      [] outcome = "sent" ->
            [status |-> 200, body |-> "Verification email sent successfully."]
      [] OTHER ->
            [status |-> 500,
             body |-> "Failed to send verification email. Please try again later."]

\* ResendVerificationEmailView.post: the lookup and the email_verified test
ResendVerificationLoad(p, email) ==
    /\ Free(p)
    /\ LET m == ByEmail(email)
           uid == IF m = {} THEN 0 ELSE CHOOSE i \in m : TRUE
       IN
       IF Cardinality(m) > 1 THEN
          /\ req' = req
          /\ last' = Rec([op |-> "resend", email |-> email, mail |-> "none",
                      status |-> 500, body |-> "Server Error (500)"])
       ELSE IF m = {} THEN
          /\ req' = req
          /\ last' = Rec([op |-> "resend", email |-> email, mail |-> "none",
                      status |-> ResendVerificationResponse("notfound").status,
                      body |-> ResendVerificationResponse("notfound").body])
       ELSE IF users[uid].email_verified THEN
          /\ req' = req
          /\ last' = Rec([op |-> "resend", email |-> email, mail |-> "none",
                      status |-> ResendVerificationResponse("verified").status,
                      body |-> ResendVerificationResponse("verified").body])
       ELSE
          /\ nextUuid < MaxUuid
          /\ req' = [req EXCEPT ![p] = [pc |-> "resend", uid |-> uid, email |-> email,
                                        user |-> users[uid]]]
          /\ last' = Rec(NoResp)
    /\ UNCHANGED <<users, outstanding, blacklisted, issued, nextJti, nextUuid, now,
                   ticks, loggedOut, resetBefore, bumps, confirmed>>

\* User.generate_verification_token on the instance u of row uid
GenerateVerificationToken(uid, u) ==
    SaveAll(uid, [u EXCEPT !.email_verification_token = nextUuid + 1])

\* ResendVerificationEmailView.post: new token, mail, response
ResendVerificationSave(p, mail) ==
    /\ req[p].pc = "resend"
    /\ nextUuid < MaxUuid
    /\ LET q == req[p] IN
       /\ users' = GenerateVerificationToken(q.uid, q.user)
       /\ nextUuid' = nextUuid + 1
       /\ req' = [req EXCEPT ![p] = Idle]
       /\ last' = Rec([op |-> "resend", email |-> q.email, mail |-> mail,
                   status |-> ResendVerificationResponse(mail).status,
                   body |-> ResendVerificationResponse(mail).body])
    /\ UNCHANGED <<outstanding, blacklisted, issued, nextJti, now, ticks,
                   loggedOut, resetBefore, bumps, confirmed>>

\* ------------------------------------------------------------ Register
\* email_verification_token = UUIDField(default=uuid.uuid4): the value a
\* row is inserted with; it is never mailed, so no client can present it
DefaultUuid(uid) == 1000 + uid

ByUsername(username) == {i \in Ids : users[i].username = username}

\* UserCreateSerializer.validate (serializer.is_valid)
RegisterValidate(p, username, email, pw) ==
    /\ Free(p)
    /\ IF ByUsername(username) = {} /\ ByEmail(email) = {} THEN
          /\ Len(users) < MaxUsers
          /\ nextUuid < MaxUuid
          /\ req' = [req EXCEPT ![p] = [pc |-> "reg_create", username |-> username,
                                        email |-> email, password |-> pw]]
          /\ last' = Rec(NoResp)
       ELSE
          /\ req' = req
          /\ last' = Rec([op |-> "register", status |-> 400, uid |-> 0, mail |-> "none",
                      username |-> username, email |-> email])
    /\ UNCHANGED <<users, outstanding, blacklisted, issued, nextJti, nextUuid, now,
                   ticks, loggedOut, resetBefore, bumps, confirmed>>

\* UserCreateSerializer.create: INSERT; username is UNIQUE in the table
RegisterCreate(p) ==
    /\ req[p].pc = "reg_create"
    /\ LET q == req[p]
           uid == Len(users) + 1
           u == NewUser(q.username, q.email, q.password, FALSE, DefaultUuid(uid))
       IN
       IF ByUsername(q.username) = {} THEN
          /\ Len(users) < MaxUsers
          /\ users' = Append(users, u)
          /\ req' = [req EXCEPT ![p] = [pc |-> "reg_token", uid |-> uid, user |-> u]]
          /\ last' = Rec(NoResp)
       ELSE
          /\ users' = users
          /\ req' = [req EXCEPT ![p] = Idle]
          /\ last' = Rec([op |-> "register", status |-> 400, uid |-> 0, mail |-> "none",
                      username |-> q.username, email |-> q.email])
    /\ UNCHANGED <<outstanding, blacklisted, issued, nextJti, nextUuid, now, ticks,
                   loggedOut, resetBefore, bumps, confirmed>>

\* RegisterToken that lets an exception of the mail sender reach the outer
\* handler
RegisterToken_MailErrorFails(p, mail) ==
    /\ req[p].pc = "reg_token"
    /\ nextUuid < MaxUuid
    /\ LET q == req[p] IN
       /\ users' = GenerateVerificationToken(q.uid, q.user)
       /\ nextUuid' = nextUuid + 1
       /\ req' = [req EXCEPT ![p] = Idle]
       /\ last' = Rec([op |-> "register", status |-> IF mail = "raised" THEN 400 ELSE 201,
                   uid |-> q.uid, mail |-> mail,
                   username |-> q.user.username, email |-> q.user.email])
    /\ UNCHANGED <<outstanding, blacklisted, issued, nextJti, now, ticks,
                   loggedOut, resetBefore, bumps, confirmed>>

\* RegisterView.create: generate_verification_token, mail, response
RegisterToken(p, mail) ==
    /\ req[p].pc = "reg_token"
    /\ nextUuid < MaxUuid
    /\ LET q == req[p] IN
       /\ users' = GenerateVerificationToken(q.uid, q.user)
       /\ nextUuid' = nextUuid + 1
       /\ req' = [req EXCEPT ![p] = Idle]
       /\ last' = Rec([op |-> "register", status |-> 201, uid |-> q.uid, mail |-> mail,
                   username |-> q.user.username, email |-> q.user.email])
    /\ UNCHANGED <<outstanding, blacklisted, issued, nextJti, now, ticks,
                   loggedOut, resetBefore, bumps, confirmed>>

\* ------------------------------------------------------- FederatedLogin
\* email.split("@")[0]
LocalPart(email) ==
    CASE email = "al@x.com" -> "al"
      [] email = "al@y.com" -> "al"
      [] email = "bo@x.com" -> "bo"
      [] OTHER -> email

RECURSIVE UniqueUsername_SkipsOne(_, _)
RECURSIVE UniqueUsername(_, _)
\* UniqueUsername whose suffixes start at 2
UniqueUsername_SkipsOne(base, counter) ==
    LET username == IF counter = 0 THEN base ELSE base \o ToString(counter + 1) IN
    IF ByUsername(username) = {} THEN username
    ELSE UniqueUsername_SkipsOne(base, counter + 1)

\* the while loop of GoogleLoginView.post: base, base1, base2, ...
UniqueUsername(base, counter) ==
    LET username == IF counter = 0 THEN base ELSE base \o ToString(counter) IN
    IF ByUsername(username) = {} THEN username
    ELSE UniqueUsername(base, counter + 1)

\* GoogleLoginLoad that takes the DoesNotExist branch for every email
GoogleLoginLoad_AlwaysCreate(p, email) ==
    /\ Free(p)
    /\ nextJti < MaxJti
    /\ Len(users) < MaxUsers
    /\ req' = [req EXCEPT ![p] = [pc |-> "g_create", email |-> email]]
    /\ last' = Rec(NoResp)
    /\ UNCHANGED <<users, outstanding, blacklisted, issued, nextJti, nextUuid, now,
                   ticks, loggedOut, resetBefore, bumps, confirmed>>

\* GoogleLoginView.post: User.objects.get(email=email)
GoogleLoginLoad(p, email) ==
    /\ Free(p)
    /\ nextJti < MaxJti
    /\ LET m == ByEmail(email) IN
       IF Cardinality(m) > 1 THEN
          /\ req' = req
          /\ last' = Rec([op |-> "google", status |-> 500, uid |-> 0, email |-> email,
                      access |-> Absent, refresh |-> Absent])
       ELSE IF m # {} THEN
          /\ req' = [req EXCEPT ![p] = [pc |-> "g_save", email |-> email,
                                        uid |-> CHOOSE i \in m : TRUE,
                                        user |-> users[CHOOSE i \in m : TRUE]]]
          /\ last' = Rec(NoResp)
       ELSE
          /\ Len(users) < MaxUsers
          /\ req' = [req EXCEPT ![p] = [pc |-> "g_create", email |-> email]]
          /\ last' = Rec(NoResp)
    /\ UNCHANGED <<users, outstanding, blacklisted, issued, nextJti, nextUuid, now,
                   ticks, loggedOut, resetBefore, bumps, confirmed>>

\* the token pair of GoogleLoginView.post and its response
GoogleIssue(uid, email) ==
    /\ issued' = issued \cup {PlainRefresh(uid), PlainAccess(uid)}
    /\ outstanding' = outstanding \cup {OutstandingRow(uid)}
    /\ nextJti' = nextJti + 1
    /\ last' = Rec([op |-> "google", status |-> 200, uid |-> uid, email |-> email,
                access |-> PlainAccess(uid), refresh |-> PlainRefresh(uid)])

\* existing account: user.save() of the loaded instance, then the tokens
GoogleLoginSave(p) ==
    /\ req[p].pc = "g_save"
    /\ nextJti < MaxJti
    /\ LET q == req[p] IN
       /\ users' = SaveAll(q.uid, q.user)
       /\ GoogleIssue(q.uid, q.email)
    /\ req' = [req EXCEPT ![p] = Idle]
    /\ UNCHANGED <<blacklisted, nextUuid, now, ticks, loggedOut, resetBefore, bumps, confirmed>>

\* new account: username search, INSERT, set_unusable_password, save, tokens
GoogleLoginCreate(p) ==
    /\ req[p].pc = "g_create"
    /\ nextJti < MaxJti
    /\ Len(users) < MaxUsers
    /\ LET q == req[p]
           uid == Len(users) + 1
           username == UniqueUsername(LocalPart(q.email), 0)
       IN
       /\ users' = Append(users, NewUser(username, q.email, Unusable, TRUE,
                                         DefaultUuid(uid)))
       /\ GoogleIssue(uid, q.email)
    /\ req' = [req EXCEPT ![p] = Idle]
    /\ UNCHANGED <<blacklisted, nextUuid, now, ticks, loggedOut, resetBefore, bumps, confirmed>>

\* ---------------------------------------------------------- environment
\* timezone.now() moves on
Tick(d) ==
    /\ ticks < MaxTicks
    /\ now' = now + d
    /\ ticks' = ticks + 1
    /\ last' = Rec(NoResp)
    /\ UNCHANGED <<users, outstanding, blacklisted, issued, nextJti, nextUuid, req,
                   loggedOut, resetBefore, bumps, confirmed>>

\* an administrator clears or sets AbstractUser.is_active in the admin site
AdminSetActive(uid, b) ==
    /\ uid \in Ids
    /\ users[uid].is_active # b
    /\ users' = [users EXCEPT ![uid].is_active = b]
    /\ last' = Rec(NoResp)
    /\ UNCHANGED <<outstanding, blacklisted, issued, nextJti, nextUuid, now, ticks,
                   req, loggedOut, resetBefore, bumps, confirmed>>

\* ------------------------------------------------------- specification
\* what a client can send as a token / as a uuid
Presentable == issued \cup {Malformed}
Uuids == (1..nextUuid) \cup {MalformedUuid}

Empty ==
    /\ outstanding = {}
    /\ blacklisted = {}
    /\ issued = {}
    /\ nextJti = 0
    /\ now = 0
    /\ ticks = 0
    /\ req = [p \in Procs |-> Idle]
    /\ loggedOut = {}
    /\ resetBefore = {}
    /\ bumps = [i \in 1..(MaxUsers + 1) |-> 0]
    /\ confirmed = <<>>

\* the store after Register("al", "al@x.com", "pw1") and VerifyEmail
Registered == <<NewUser("al", "al@x.com", "pw1", TRUE, 1)>>

\* Session lifecycle of a registered account; requests are served by one
\* worker, the single-statement handlers run between its statements.
Init ==
    /\ users = Registered
    /\ nextUuid = 1
    /\ last = NoResp
    /\ Empty

Next ==
    \/ \E i \in {"al", "al@x.com"}, pw \in Passwords : Login(i, pw)
    \/ \E t \in Presentable : TokenRefresh(t)
    \/ \E t \in Presentable : TokenVerify(t)
    \/ \E a \in Presentable, r \in Presentable \cup {Absent} : LogoutAuth(1, a, r)
    \/ LogoutDo(1)
    \/ \E a \in Presentable, o \in Passwords, n \in Passwords :
            PasswordChangeAuth(1, a, o, n)
    \/ PasswordChangeDo(1)
    \/ GoogleLoginLoad(1, "al@x.com")
    \/ GoogleLoginSave(1)

Spec == Init /\ [][Next]_vars

\* The same account served by two workers.
InitRace ==
    /\ users = Registered
    /\ nextUuid = 1
    /\ last = Off
    /\ Empty

NextRace ==
    \/ \E pw \in Passwords : Login("al@x.com", pw)
    \/ \E t \in Presentable : TokenRefresh(t)
    \/ \E p \in Procs, a \in Presentable, r \in Presentable : LogoutAuth(p, a, r)
    \/ \E p \in Procs : LogoutDo(p)
    \/ \E p \in Procs, a \in Presentable, o \in Passwords, n \in Passwords :
            PasswordChangeAuth(p, a, o, n)
    \/ \E p \in Procs : PasswordChangeDo(p)

SpecRace == InitRace /\ [][NextRace]_vars

\* Two workers, with the password-reset flow.
NextResetRace ==
    \/ \E pw \in Passwords : Login("al@x.com", pw)
    \/ \E t \in Presentable : TokenRefresh(t)
    \/ \E p \in Procs, a \in Presentable, r \in Presentable : LogoutAuth(p, a, r)
    \/ \E p \in Procs : LogoutDo(p)
    \/ \E m \in MailOutcomes : PasswordResetRequest("al@x.com", m)
    \/ \E p \in Procs, k \in Uuids, n \in Passwords : PasswordResetConfirmLoad(p, k, n)
    \/ \E p \in Procs : PasswordResetConfirmClear(p)
    \/ \E p \in Procs : PasswordResetConfirmIncr(p)
    \/ \E p \in Procs : PasswordResetConfirmSave(p)

SpecResetRace == InitRace /\ [][NextResetRace]_vars

\* The password-reset flow of a registered account, one worker, with the
\* clock.
NextReset ==
    \/ \E e \in Emails, m \in MailOutcomes : PasswordResetRequest(e, m)
    \/ \E k \in Uuids, n \in Passwords : PasswordResetConfirmLoad(1, k, n)
    \/ PasswordResetConfirmClear(1)
    \/ PasswordResetConfirmIncr(1)
    \/ PasswordResetConfirmSave(1)
    \/ \E d \in TickSteps : Tick(d)

SpecReset == Init /\ [][NextReset]_vars

\* Registration and verification from the empty store of a fresh deployment.
InitAccount ==
    /\ users = <<>>
    /\ nextUuid = 0
    /\ last = NoResp
    /\ Empty

NextAccount ==
    \/ \E h \in Handles, e \in Emails, pw \in Passwords : RegisterValidate(1, h, e, pw)
    \/ RegisterCreate(1)
    \/ \E m \in MailOutcomes : RegisterToken(1, m)
    \/ \E k \in Uuids : VerifyEmailLoad(1, k)
    \/ \E m \in MailOutcomes : VerifyEmailSave(1, m)
    \/ \E e \in Emails : ResendVerificationLoad(1, e)
    \/ \E m \in MailOutcomes : ResendVerificationSave(1, m)
    \/ \E i \in Handles \cup Emails, pw \in Passwords : Login(i, pw)
    \/ \E i \in Ids, b \in BOOLEAN : AdminSetActive(i, b)

SpecAccount == InitAccount /\ [][NextAccount]_vars

\* The same from two workers.
InitAccountRace ==
    /\ users = <<>>
    /\ nextUuid = 0
    /\ last = Off
    /\ Empty

NextAccountRace ==
    \/ \E p \in Procs, pw \in Passwords : RegisterValidate(p, "al", "al@x.com", pw)
    \/ \E p \in Procs : RegisterCreate(p)
    \/ \E p \in Procs, m \in MailOutcomes : RegisterToken(p, m)
    \/ \E p \in Procs, k \in Uuids : VerifyEmailLoad(p, k)
    \/ \E p \in Procs, m \in MailOutcomes : VerifyEmailSave(p, m)
    \/ \E p \in Procs : ResendVerificationLoad(p, "al@x.com")
    \/ \E p \in Procs, m \in MailOutcomes : ResendVerificationSave(p, m)
    \/ \E pw \in Passwords : Login("al@x.com", pw)

SpecAccountRace == InitAccountRace /\ [][NextAccountRace]_vars

\* Account identity: handles that differ in letter case only, password
\* and federated accounts, one worker.
CaseHandles == {"al", "AL"}
Identifiers == {"al", "AL", "al@x.com", "AL@x.com"}

NextIdentity ==
    \/ \E h \in CaseHandles, e \in Emails : RegisterValidate(1, h, e, "pw1")
    \/ RegisterCreate(1)
    \/ RegisterToken(1, "sent")
    \/ \E k \in Uuids : VerifyEmailLoad(1, k)
    \/ VerifyEmailSave(1, "sent")
    \/ \E i \in Identifiers, pw \in Passwords : Login(i, pw)
    \/ \E e \in Emails : GoogleLoginLoad(1, e)
    \/ GoogleLoginSave(1)
    \/ GoogleLoginCreate(1)

SpecIdentity == InitAccount /\ [][NextIdentity]_vars

\* Register and FederatedLogin for one address from two workers.
NextFederatedRace ==
    \/ \E p \in Procs, h \in Handles : RegisterValidate(p, h, "al@x.com", "pw1")
    \/ \E p \in Procs : RegisterCreate(p)
    \/ \E p \in Procs : RegisterToken(p, "sent")
    \/ \E p \in Procs : GoogleLoginLoad(p, "al@x.com")
    \/ \E p \in Procs : GoogleLoginSave(p)
    \/ \E p \in Procs : GoogleLoginCreate(p)

SpecFederatedRace == InitAccountRace /\ [][NextFederatedRace]_vars

\* Handles of federated accounts: two addresses with the local part al,
\* next to registered accounts that hold al or al1.
SuffixHandles == {"al", "al1"}
SameLocalPart == {"al@x.com", "al@y.com"}

NextHandle ==
    \/ \E h \in SuffixHandles : RegisterValidate(1, h, "bo@x.com", "pw1")
    \/ RegisterCreate(1)
    \/ RegisterToken(1, "sent")
    \/ \E e \in SameLocalPart : GoogleLoginLoad(1, e)
    \/ GoogleLoginSave(1)
    \/ GoogleLoginCreate(1)

SpecHandle == InitAccount /\ [][NextHandle]_vars

\* Notifications: verification and password reset of an account that has
\* registered and not yet verified, one worker, every outcome of the mail
\* sender.
Unverified == <<NewUser("al", "al@x.com", "pw1", FALSE, 1)>>

InitNotify ==
    /\ users = Unverified
    /\ nextUuid = 1
    /\ last = NoResp
    /\ Empty

NextNotify ==
    \/ \E k \in Uuids : VerifyEmailLoad(1, k)
    \/ \E m \in MailOutcomes : VerifyEmailSave(1, m)
    \/ \E e \in Emails, m \in MailOutcomes : PasswordResetRequest(e, m)
    \/ \E k \in Uuids, n \in Passwords : PasswordResetConfirmLoad(1, k, n)
    \/ PasswordResetConfirmClear(1)
    \/ PasswordResetConfirmIncr(1)
    \/ PasswordResetConfirmSave(1)

SpecNotify == InitNotify /\ [][NextNotify]_vars

\* Every operation on the store, applied to one account from its creation
\* on, one request at a time.  The account logs in with its first
\* password only.
NextFrame ==
    \/ RegisterValidate(1, "al", "al@x.com", "pw1")
    \/ RegisterCreate(1)
    \/ RegisterToken(1, "sent")
    \/ \E k \in Uuids : VerifyEmailLoad(1, k)
    \/ VerifyEmailSave(1, "sent")
    \/ ResendVerificationLoad(1, "al@x.com")
    \/ ResendVerificationSave(1, "sent")
    \/ Login("al", "pw1")
    \/ \E t \in issued : TokenRefresh(t)
    \/ \E a \in issued, r \in issued : LogoutAuth(1, a, r)
    \/ LogoutDo(1)
    \/ \E a \in issued : PasswordChangeAuth(1, a, "pw1", "pw2")
    \/ PasswordChangeDo(1)
    \/ PasswordResetRequest("al@x.com", "sent")
    \/ \E k \in Uuids : PasswordResetConfirmLoad(1, k, "pw1")
    \/ PasswordResetConfirmClear(1)
    \/ PasswordResetConfirmIncr(1)
    \/ PasswordResetConfirmSave(1)
    \/ GoogleLoginLoad(1, "al@x.com")
    \/ GoogleLoginSave(1)
    \/ GoogleLoginCreate(1)

SpecFrame == InitAccountRace /\ [][NextFrame]_vars

\* ================================================================ claims

\* C1: once a Logout of an account has returned success, every access token
\* issued to it by Login or Refresh before that Logout is rejected by
\* request authentication, in every later state.
C1_LogoutRevokesAccess ==
    \A t \in loggedOut :
        (t.kind = "access" /\ t.tv # NoClaim) => ~CustomAccessTokenVerify(t)

\* C2: the stored token_version of an account never decreases, whatever the
\* interleaving of requests that load the row and save it back.
C2_VersionNeverDecreases ==
    [][\A i \in DOMAIN users :
          users'[i].token_version >= users[i].token_version]_vars

\* C3: Refresh with a refresh token whose embedded token_version is lower
\* than the stored one answers 401 and issues no token pair.
C3_StaleRefreshRejected ==
    [][(/\ last'.op = "refresh"
        /\ last'.tok.kind = "refresh"
        /\ last'.tok.uid \in DOMAIN users
        /\ PayloadVersion(last'.tok) < users[last'.tok.uid].token_version)
       => (/\ last'.status = 401
           /\ last'.access = Absent /\ last'.refresh = Absent
           /\ issued' = issued /\ outstanding' = outstanding)]_vars

\* C3 witness: a Refresh just answered 401 to an unexpired, not blacklisted
\* refresh token whose version is behind the stored one
C3_Witness ==
    /\ last.op = "refresh"
    /\ last.status = 401
    /\ last.tok.kind = "refresh"
    /\ last.tok.exp > now
    /\ ~CheckBlacklist(last.tok)
    /\ PayloadVersion(last.tok) < users[last.tok.uid].token_version

\* C4: after a successful Logout of an account, Refresh with any refresh
\* token issued to it before the Logout fails.
C4_LogoutRevokesRefresh ==
    \A t \in loggedOut : t.kind = "refresh" => ~RefreshAccepts(t)

\* C5: after a successful ConfirmPasswordReset of an account, Refresh with
\* any refresh token issued to it before the reset fails.
C5_ResetRevokesRefresh ==
    \A t \in resetBefore : t.kind = "refresh" => ~RefreshAccepts(t)

\* C6: token/verify reports a token valid only if it is a well-formed,
\* unexpired access token whose version is not behind the stored one and
\* which is not blacklisted.
C6_VerifyEndpointChecksRevocation ==
    (last.op = "verify" /\ last.status = 200) => CustomAccessTokenVerify(last.tok)

\* C7: once email_verified is true it is never false again.
C7_VerifiedIsOneWay ==
    [][\A i \in DOMAIN users :
          users[i].email_verified => users'[i].email_verified]_vars

\* C8: when k version-incrementing operations have completed on an account
\* and none is in progress, its token_version is k above its initial 0.
C8_NoLostBump ==
    (\A p \in Procs : req[p] = Idle)
        => \A i \in DOMAIN users : users[i].token_version = bumps[i]

\* C9: a Logout by an authenticated account that supplies a refresh token
\* raises that account's token_version by exactly one, whatever the
\* outstanding/blacklist state of the token.
C9_LogoutAlwaysBumps ==
    [][(/\ last'.op = "logout"
        /\ last'.status # 401
        /\ last'.refresh.kind = "refresh")
       => users'[last'.uid].token_version = last'.old + 1]_vars

\* C10: Login answers 401, issues nothing and leaves every row (last_login
\* included) as it was whenever the identified account has another
\* password, is unverified or is disabled.
C10_LoginRejects ==
    [][(/\ last'.op = "login"
        /\ \E i \in DOMAIN users :
              /\ \/ Lower(users[i].username) = Lower(last'.ident)
                 \/ Lower(users[i].email) = Lower(last'.ident)
              /\ \A j \in DOMAIN users :
                    (\/ Lower(users[j].username) = Lower(last'.ident)
                     \/ Lower(users[j].email) = Lower(last'.ident)) => j = i
              /\ \/ users[i].password # last'.pw
                 \/ ~users[i].email_verified
                 \/ ~users[i].is_active)
       => (/\ last'.status = 401
           /\ last'.access = Absent /\ last'.refresh = Absent
           /\ issued' = issued /\ outstanding' = outstanding
           /\ users' = users)]_vars

\* C10 witness: a Login with the right password of a registered but
\* unverified account was just refused
C10_Witness ==
    /\ last.op = "login"
    /\ last.status = 401
    /\ \E i \in DOMAIN users :
          /\ users[i].email = last.ident \/ users[i].username = last.ident
          /\ users[i].password = last.pw
          /\ ~users[i].email_verified
          /\ users[i].is_active
          /\ users[i].last_login = NoTime

\* C11: a successful Login returns an access and a refresh token whose
\* token_version claims both equal the stored token_version of the account
\* as the handler read it (0 while no increment has completed on it).
C11_LoginStampsStoredVersion ==
    [][(last'.op = "login" /\ last'.status = 200)
       => (/\ last'.uid \in DOMAIN users
           /\ last'.access.kind = "access" /\ last'.refresh.kind = "refresh"
           /\ last'.access.uid = last'.uid /\ last'.refresh.uid = last'.uid
           /\ last'.access.tv = users[last'.uid].token_version
           /\ last'.refresh.tv = users[last'.uid].token_version
           /\ users'[last'.uid].token_version = users[last'.uid].token_version
           /\ (bumps[last'.uid] = 0 => last'.access.tv = 0 /\ last'.refresh.tv = 0))]_vars

\* C11 witness: a Login succeeded on an account whose token_version had
\* been raised by a Logout, and both tokens carry the raised value
C11_Witness ==
    /\ last.op = "login"
    /\ last.status = 200
    /\ users[last.uid].token_version = 1
    /\ last.access.tv = 1
    /\ last.refresh.tv = 1

\* C12: Login with the correct password of a verified, active account
\* succeeds for that account whenever the identifier equals its handle or
\* its email up to letter case, whatever other accounts the store holds.
C12_LoginCaseInsensitive ==
    [][(/\ last'.op = "login"
        /\ \E i \in DOMAIN users :
              /\ users[i].email_verified /\ users[i].is_active
              /\ users[i].password = last'.pw
              /\ \/ Lower(users[i].username) = Lower(last'.ident)
                 \/ Lower(users[i].email) = Lower(last'.ident))
       => (/\ last'.status = 200
           /\ users[last'.uid].password = last'.pw
           /\ \/ Lower(users[last'.uid].username) = Lower(last'.ident)
              \/ Lower(users[last'.uid].email) = Lower(last'.ident))]_vars

\* C13: the token pair a FederatedLogin has just returned is usable: the
\* access token passes request authentication and Refresh accepts the
\* refresh token, whatever the stored token_version of the account.
C13_FederatedTokensUsable ==
    (last.op = "google" /\ last.status = 200)
        => (Authenticate(last.access) /\ RefreshAccepts(last.refresh))

\* C14: a FederatedLogin that succeeds for an email returns the one account
\* with that email, which is the existing account whenever one existed
\* before the call; emails of existing rows do not change.  Hence two calls
\* in sequence return the same id and leave exactly one such account.
C14_FederatedLoginIdempotent ==
    [][/\ \A i \in DOMAIN users : users'[i].email = users[i].email
       /\ (last'.op = "google" /\ last'.status = 200)
            => (/\ {i \in DOMAIN users' : users'[i].email = last'.email} = {last'.uid}
                /\ \A i \in DOMAIN users :
                      users[i].email = last'.email => i = last'.uid)]_vars

\* C14 witness: a FederatedLogin answered for an account that already held
\* a token pair of an earlier FederatedLogin, and the email has one account
C14_Witness ==
    /\ last.op = "google"
    /\ last.status = 200
    /\ \E t \in issued : /\ t.uid = last.uid /\ t.kind = "refresh"
                          /\ t.tv = NoClaim /\ t # last.refresh
    /\ Cardinality({i \in DOMAIN users : users[i].email = last.email}) = 1

\* C15: no two accounts have the same email, in every reachable state,
\* also when Register and FederatedLogin requests for one address overlap.
C15_EmailUnique ==
    \A i \in DOMAIN users : \A j \in DOMAIN users :
        users[i].email = users[j].email => i = j

\* C16: RequestPasswordReset answers an email that belongs to an account
\* with the status and body it gives for an email that belongs to none,
\* whatever the notification sender does.
C16_ResetRequestEnumerationResistant ==
    (last.op = "reset_request" /\ last.found)
        => (/\ last.status = PasswordResetRequestResponse(FALSE, "none").status
            /\ last.body = PasswordResetRequestResponse(FALSE, "none").body)

\* C17: ResendVerification answers an email whose unverified account was
\* found and had its verification re-sent with the status and body it
\* gives for an email that has no account.
C17_ResendEnumerationResistant ==
    (last.op = "resend" /\ last.mail = "sent")
        => (/\ last.status = ResendVerificationResponse("notfound").status
            /\ last.body = ResendVerificationResponse("notfound").body)

\* C18: VerifyEmail with the verification token of an account answers 200,
\* leaves the account verified and its token in place, and attempts the
\* welcome notification exactly when the account was not yet verified; so
\* a second call in sequence succeeds again without a second welcome.
C18_VerifyEmailIdempotent ==
    [][(/\ last'.op = "verify_email"
        /\ \E i \in DOMAIN users : users[i].email_verification_token = last'.token)
       => (/\ last'.status = 200
           /\ users[last'.uid].email_verification_token = last'.token
           /\ users'[last'.uid].email_verification_token = last'.token
           /\ users'[last'.uid].email_verified
           /\ last'.welcome <=> ~users[last'.uid].email_verified)]_vars

\* C18 witness: a second VerifyEmail with the token of an account that is
\* already verified was answered 200 without a welcome notification
C18_Witness ==
    /\ last.op = "verify_email"
    /\ last.status = 200
    /\ ~last.welcome
    /\ users[last.uid].email_verified
    /\ users[last.uid].email_verification_token = last.token

\* C19: a Register whose handle and email are not taken inserts an
\* unverified account and answers 201 whether the verification mail is
\* delivered, reported as failed, or raises; the account then exists.
C19_RegisterSucceedsWhateverMail ==
    [][/\ (req[1].pc = "reg_create" /\ req'[1] # req[1])
            => (/\ req'[1].pc = "reg_token"
                /\ Len(users') = Len(users) + 1
                /\ users'[Len(users')].username = req[1].username
                /\ users'[Len(users')].email = req[1].email
                /\ ~users'[Len(users')].email_verified)
       /\ (req[1].pc = "reg_token" /\ req'[1] # req[1])
            => (/\ last'.op = "register"
                /\ last'.mail \in MailOutcomes
                /\ last'.status = 201
                /\ last'.uid \in DOMAIN users'
                /\ users'[last'.uid].username = req[1].user.username
                /\ users'[last'.uid].email = req[1].user.email
                /\ ~users'[last'.uid].email_verified)
       /\ (last'.op = "register" /\ last'.status # 201)
            => \E i \in DOMAIN users : \/ users[i].username = last'.username
                                       \/ users[i].email = last'.email]_vars

\* C19 witness: a Register was answered 201 although the mail sender
\* raised, and the unverified account is in the store
C19_Witness ==
    /\ last.op = "register"
    /\ last.status = 201
    /\ last.mail = "raised"
    /\ last.uid \in DOMAIN users
    /\ users[last.uid].username = last.username
    /\ ~users[last.uid].email_verified

\* C20: a reset token authorises at most one successful ConfirmPasswordReset,
\* also when two confirmations of the same token are processed concurrently:
\* no token occurs twice among the confirmations that succeeded.
C20_ResetTokenSingleUse ==
    \A i \in DOMAIN confirmed : \A j \in DOMAIN confirmed :
        confirmed[i] = confirmed[j] => i = j

\* C21: ConfirmPasswordReset with the current reset token of an account is
\* accepted when now - issued_at is at most 86400 seconds, 86400 included,
\* and is refused with the invalid-or-expired-token error when it is 86401
\* seconds or more; an accepted request ends with 200.
C21_ResetWindow ==
    [][/\ (req[1] = Idle /\ req'[1].pc = "reset_clear")
            => (/\ users[req'[1].uid].password_reset_token = req'[1].token
                /\ now - users[req'[1].uid].password_reset_token_created <= 86400)
       /\ (last'.op = "reset_confirm" /\ last'.status = 400)
            => \A i \in DOMAIN users :
                  users[i].password_reset_token = last'.token
                     => (/\ now - users[i].password_reset_token_created >= 86401
                         /\ last'.body = InvalidOrExpiredToken)
       /\ (req[1].pc = "reset_save" /\ req'[1] = Idle)
            => (last'.status = 200 /\ last'.token = req[1].token)]_vars

\* C21 witness: a confirmation with the stored token was refused exactly
\* 86401 seconds after the token was issued
C21_Witness ==
    /\ last.op = "reset_confirm"
    /\ last.status = 400
    /\ \E i \in DOMAIN users :
          /\ users[i].password_reset_token = last.token
          /\ now - users[i].password_reset_token_created = 86401

\* C22: a ConfirmPasswordReset that succeeds leaves the account with the
\* new password, with password_reset_token and its timestamp empty, and
\* with token_version exactly one above its value before the call.
C22_ResetEffects ==
    [][(req[1].pc = "reset_save" /\ req'[1] = Idle)
       => (/\ last'.op = "reset_confirm" /\ last'.status = 200
           /\ users'[req[1].uid].password = req[1].new
           /\ users'[req[1].uid].password_reset_token = NoUuid
           /\ users'[req[1].uid].password_reset_token_created = NoTime
           /\ users'[req[1].uid].token_version = req[1].old + 1)]_vars

\* C22 witness: a confirmation succeeded that replaced the password pw1
\* by pw2 of an account whose token_version was already 1
C22_Witness ==
    /\ last.op = "reset_confirm"
    /\ last.status = 200
    /\ users[last.uid].password = "pw2"
    /\ users[last.uid].password_reset_token = NoUuid
    /\ users[last.uid].token_version = 2

\* C23: ConfirmPasswordReset with a malformed, unknown, mismatched or
\* expired token answers 400 with an invalid-token error and leaves every
\* row as it was; only a well-formed, stored, unexpired token is accepted.
C23_ResetRejectsBadToken ==
    [][/\ (req[1] = Idle /\ req'[1].pc = "reset_clear")
            => (/\ req'[1].token # MalformedUuid
                /\ req'[1].token # NoUuid
                /\ req'[1].uid \in DOMAIN users
                /\ users[req'[1].uid].password_reset_token = req'[1].token
                /\ ~(now - users[req'[1].uid].password_reset_token_created
                        > RESET_TOKEN_MAX_AGE))
       /\ (last'.op = "reset_confirm" /\ last'.status # 200)
            => (/\ last'.status = 400
                /\ last'.body \in {InvalidTokenFormat, InvalidOrExpiredToken}
                /\ users' = users)]_vars

\* C23 witness: a well-formed token that no account stores was refused
\* while an account had a reset token pending
C23_Witness ==
    /\ last.op = "reset_confirm"
    /\ last.status = 400
    /\ last.token # MalformedUuid
    /\ \A i \in DOMAIN users : users[i].password_reset_token # last.token
    /\ \E i \in DOMAIN users : users[i].password_reset_token # NoUuid

\* C24: only the latest reset token is valid.  Every RequestPasswordReset
\* for an account stores a token never drawn before, stamped with the
\* current time, in place of the one stored until then; a confirmation is
\* accepted only with the token stored at that moment, and with that token
\* it is refused only outside the window.  So after two requests the first
\* token fails and the second succeeds, in every cycle.
C24_OnlyLatestResetToken ==
    [][/\ (last'.op = "reset_request" /\ last'.found /\ last'.mail # "none")
            => \A i \in DOMAIN users :
                  users[i].email = last'.email
                     => (/\ users'[i].password_reset_token = nextUuid + 1
                         /\ nextUuid' = nextUuid + 1
                         /\ users'[i].password_reset_token # users[i].password_reset_token
                         /\ \A k \in 1..nextUuid : users'[i].password_reset_token # k
                         /\ users'[i].password_reset_token_created = now)
       /\ (req[1] = Idle /\ req'[1].pc = "reset_clear")
            => users[req'[1].uid].password_reset_token = req'[1].token
       /\ (last'.op = "reset_confirm" /\ last'.status = 400)
            => \A i \in DOMAIN users :
                  users[i].password_reset_token = last'.token
                     => now - users[i].password_reset_token_created > RESET_TOKEN_MAX_AGE]_vars

\* C24 witness: after two requests and no confirmation, the token of the
\* first request was refused while the token of the second is stored and
\* inside its window
C24_Witness ==
    /\ last.op = "reset_confirm"
    /\ last.status = 400
    /\ last.token = 2
    /\ confirmed = <<>>
    /\ \E i \in DOMAIN users :
          /\ users[i].password_reset_token = 3
          /\ now - users[i].password_reset_token_created <= RESET_TOKEN_MAX_AGE

\* C25: a Refresh that succeeds returns an access and a refresh token that
\* both carry the stored token_version of the account at the time of the
\* call, not the claim of the presented refresh token.
C25_RefreshStampsStoredVersion ==
    [][(last'.op = "refresh" /\ last'.status = 200)
       => (/\ last'.tok.uid \in DOMAIN users
           /\ last'.access.kind = "access" /\ last'.refresh.kind = "refresh"
           /\ last'.access.uid = last'.tok.uid /\ last'.refresh.uid = last'.tok.uid
           /\ last'.access.tv = users[last'.tok.uid].token_version
           /\ last'.refresh.tv = users[last'.tok.uid].token_version
           /\ last'.refresh # last'.tok)]_vars

\* C25 witness: a Refresh succeeded with a refresh token that carries no
\* token_version claim, and the new pair carries the stored value
C25_Witness ==
    /\ last.op = "refresh"
    /\ last.status = 200
    /\ last.tok.tv # last.refresh.tv
    /\ last.access.tv = users[last.tok.uid].token_version
    /\ last.refresh.tv = users[last.tok.uid].token_version

\* C26: Refresh neither rotates nor revokes: it leaves every row and the
\* blacklist as they were, and a token it has accepted is still accepted
\* afterwards, so the token can be presented again.
C26_RefreshDoesNotRotate ==
    [][(last'.op = "refresh")
       => (/\ users' = users
           /\ blacklisted' = blacklisted
           /\ last'.status = 200
                => (/\ last'.tok.jti \notin blacklisted'
                    /\ last'.tok.exp > now'
                    /\ ~(PayloadVersion(last'.tok) < users'[last'.tok.uid].token_version)
                    /\ last'.tok \in issued'))]_vars

\* C26 witness: a Refresh succeeded with the first refresh token ever
\* minted after two later ones had been minted, and would accept it again
C26_Witness ==
    /\ last.op = "refresh"
    /\ last.status = 200
    /\ last.tok.jti = 1
    /\ last.refresh.jti = 3
    /\ RefreshAccepts(last.tok)

\* C27: the handle of an account created by FederatedLogin is the local
\* part of the email if no account has it, otherwise the local part
\* followed by the smallest k >= 1 such that no account has that handle;
\* it differs from every handle in the store.
C27_FederatedHandle ==
    [][(last'.op = "google" /\ last'.status = 200 /\ Len(users') = Len(users) + 1)
       => LET base == LocalPart(last'.email)
              name == users'[last'.uid].username
              Taken(h) == \E i \in DOMAIN users : users[i].username = h
          IN /\ last'.uid = Len(users')
             /\ users'[last'.uid].email = last'.email
             /\ ~Taken(name)
             /\ ~Taken(base) => name = base
             /\ Taken(base) =>
                   \E k \in 1..(Len(users) + 1) :
                       /\ name = base \o ToString(k)
                       /\ \A j \in 1..(k - 1) : Taken(base \o ToString(j))]_vars

\* C27 witness: a FederatedLogin created the account al2 because al and
\* al1 were both taken
C27_Witness ==
    /\ last.op = "google"
    /\ last.status = 200
    /\ last.uid = Len(users)
    /\ users[last.uid].username = "al2"
    /\ \E i \in DOMAIN users : users[i].username = "al"
    /\ \E i \in DOMAIN users : users[i].username = "al1"

\* C28: a notification failure never undoes the state change it follows.
\* VerifyEmail leaves the account verified when the welcome mail fails;
\* ConfirmPasswordReset answers 200 and leaves the new password, the
\* cleared reset fields and the raised token_version in place when its
\* notification fails; RequestPasswordReset leaves the new reset token
\* stored and inside its window when the reset mail fails.
C28_NotificationFailureKeepsState ==
    [][/\ (last'.op = "verify_email" /\ last'.mail \in {"failed", "raised"})
            => (/\ last'.status = 200
                /\ users'[last'.uid].email_verified)
       /\ (last'.op = "reset_confirm" /\ last'.mail \in {"failed", "raised"})
            => (/\ last'.status = 200
                /\ users'[last'.uid].password = req[1].new
                /\ users'[last'.uid].password_reset_token = NoUuid
                /\ users'[last'.uid].password_reset_token_created = NoTime
                /\ users'[last'.uid].token_version = req[1].old + 1)
       /\ (last'.op = "reset_request" /\ last'.mail \in {"failed", "raised"})
            => \A i \in DOMAIN users :
                  users[i].email = last'.email
                     => (/\ users'[i].password_reset_token = nextUuid'
                         /\ nextUuid' = nextUuid + 1
                         /\ users'[i].password_reset_token_created = now'
                         /\ ~(now' - users'[i].password_reset_token_created
                                 > RESET_TOKEN_MAX_AGE))]_vars

\* C28 witness: a RequestPasswordReset was answered 500 because the mail
\* sender reported failure, and the token it generated is stored and valid
C28_Witness ==
    /\ last.op = "reset_request"
    /\ last.mail = "failed"
    /\ last.status = 500
    /\ \E i \in DOMAIN users :
          /\ users[i].email = last.email
          /\ users[i].password_reset_token = nextUuid
          /\ IsPasswordResetTokenValid(users[i], nextUuid)

\* C29: only Logout and ConfirmPasswordReset change token_version.  With
\* one request served at a time, a step that changes the token_version of
\* any account is a step of Logout or of ConfirmPasswordReset, and a
\* PasswordChange leaves every token that was accepted before it accepted.
C29_OnlyLogoutAndResetBump ==
    [][/\ (\E i \in DOMAIN users : users'[i].token_version # users[i].token_version)
            => req[1].pc \in {"logout", "reset_incr", "reset_save"}
       /\ \A i \in DOMAIN users' : i \notin DOMAIN users => users'[i].token_version = 0
       /\ (req[1].pc = "pwchange" /\ req'[1] = Idle)
            => \A t \in issued :
                  /\ Authenticate(t) => Authenticate(t)'
                  /\ RefreshAccepts(t) => RefreshAccepts(t)']_vars

\* C29 witness: the password is the one that only PasswordChange sets, the
\* token_version is still 1, and a refresh token stamped 1 is accepted.
\* Login takes the first password only, so the token is older than the
\* change.
C29_Witness ==
    /\ req[1] = Idle
    /\ users # <<>>
    /\ users[1].password = "pw2"
    /\ users[1].token_version = 1
    /\ \E t \in issued : t.uid = 1 /\ t.tv = 1 /\ RefreshAccepts(t)
    /\ \E t \in issued : t.uid = 1 /\ t.tv = 1 /\ Authenticate(t)

\* C30: in every reachable state the token_version embedded in an issued
\* token is at most the token_version stored for its account.
C30_EmbeddedVersionAtMostStored ==
    \A t \in issued : t.tv # NoClaim => t.tv <= users[t.uid].token_version

====
